---- MODULE Spec2Model ----
(***************************************************************************)
(* Failover routing and job-lifecycle bridging of the string-art frontend: *)
(* GPURouter (src/gpu_router.py) and the SocketIO session handlers that    *)
(* drive it (src/app.py, and the earlier revision src/app_with_router.py). *)
(*                                                                         *)
(* One session is one handler invocation.  A step of a session runs from   *)
(* one suspension point (an HTTP call, a read of the event feed, a         *)
(* socketio.sleep) to the next; eventlet switches sessions only there.     *)
(*                                                                         *)
(* Time is counted in ticks of half a second, the smallest interval of the *)
(* code: 0.5 s = 1 tick, 1.0 s = 2 ticks, 2.0 s = 4 ticks.                 *)
(***************************************************************************)
EXTENDS Integers, Sequences, FiniteSets, TLC

\* ------------------------------------------------------------------ bounds
NumSessions == 2
MaxRequests == 2
MaxFeed == 2
MaxLatency == 20
\* More status requests than a loop that keeps its ceiling can make.
MaxPollCount == 200

\* ------------------------------------------------------- program constants
TicksPerSecond == 2
GenCeiling == 300
PrepCeiling == 60

Sessions == 1..NumSessions
\* Python's None, in a place that holds a string and in one that holds a dict.
None == "None"
Null == [null |-> TRUE]

VARIABLES
    home_gpu_url,         \* None, or the configured Home endpoint
    RUNPOD_API_KEY,       \* TRUE when the environment sets it
    RUNPOD_ENDPOINT_ID,   \* TRUE when the environment sets it
    home_gpu_available,   \* GPURouter.home_gpu_available
    last_health_check,    \* GPURouter.last_health_check: 0 is None, else the probe that set it
    stats,                \* GPURouter.stats
    net,                  \* requests sent so far: /health, Home operations, Queue /run, Queue /status
    handler,              \* per session: the handler that runs
    pc,                   \* per session: the suspension point the handler waits at
    health,               \* per session: what check_home_gpu_health returned
    calls,                \* per session: requests the current router call has sent
    response,             \* per session: the last response the current call received
    result,               \* per session: the handler's `result`
    provider,             \* per session: the handler's `provider`
    feed,                 \* per session: the lines read from the Home feed
    final_result,         \* per session: _generate_stream_on_home's final_result
    lines_out,            \* per session: the new_line events emitted to the client
    final_out,            \* per session: the final_sequence events emitted to the client
    seen,                 \* per session: the kinds of message emitted to the client
    outcome,              \* per session: the branch on which the handler ended
    job_id,               \* per session: the handler's job_id
    poll_count,           \* per session: the handler's poll_count
    poll_interval,        \* per session: the handler's poll_interval, in ticks
    elapsed,              \* per session: time.time() - start_time, in ticks
    poll_json,            \* per session: the last status response
    polled                \* per session: the job ids its status requests were sent for

cfgVars == <<home_gpu_url, RUNPOD_API_KEY, RUNPOD_ENDPOINT_ID>>
routerVars == <<home_gpu_available, last_health_check, stats>>
callVars == <<health, calls>>
streamVars == <<feed, final_result, lines_out>>
pollVars == <<poll_count, poll_interval, elapsed, poll_json, polled>>
handlerVars == <<handler, pc, result, provider, seen, outcome, final_out, job_id>>
vars == <<cfgVars, routerVars, net, callVars, response, streamVars, pollVars, handlerVars>>

\* ------------------------------------------------------------ environment
\* A JSON field of the health body: true, false or left out.
FieldValues == {"true", "false", "absent"}

\* dict.get(key, False) read for its truth value.
Truthy(v) == v = "true"

\* What GET /health can do.  body is "dict" (a JSON object), "list" (JSON,
\* but no object) or "garbage" (no JSON at all).
ProbeResponses ==
    { [kind |-> "response", status_code |-> 200, body |-> "dict",
       gpu_available |-> a, gpu_busy |-> b] : a \in FieldValues, b \in FieldValues }
    \cup
    { [kind |-> "response", status_code |-> 200, body |-> "garbage",
       gpu_available |-> "absent", gpu_busy |-> "absent"],
      [kind |-> "response", status_code |-> 200, body |-> "list",
       gpu_available |-> "absent", gpu_busy |-> "absent"],
      [kind |-> "response", status_code |-> 500, body |-> "dict",
       gpu_available |-> "true", gpu_busy |-> "false"],
      [kind |-> "response", status_code |-> 503, body |-> "dict",
       gpu_available |-> "true", gpu_busy |-> "true"],
      [kind |-> "timeout", status_code |-> 0, body |-> "garbage",
       gpu_available |-> "absent", gpu_busy |-> "absent"],
      [kind |-> "error", status_code |-> 0, body |-> "garbage",
       gpu_available |-> "absent", gpu_busy |-> "absent"] }

\* What POST /preprocess and POST /generate can do.
HomeResults == { [cached |-> TRUE], [cached |-> FALSE] }
HomeResponses ==
    { [kind |-> "response", status_code |-> 200, body |-> "dict", json |-> r] : r \in HomeResults }
    \cup
    { [kind |-> "response", status_code |-> 200, body |-> "garbage", json |-> Null],
      [kind |-> "response", status_code |-> 503, body |-> "dict", json |-> Null],
      [kind |-> "response", status_code |-> 500, body |-> "dict", json |-> Null],
      [kind |-> "timeout", status_code |-> 0, body |-> "garbage", json |-> Null],
      [kind |-> "error", status_code |-> 0, body |-> "garbage", json |-> Null] }

\* What POST /generate_stream can do before the first line of the feed.
StreamResponses ==
    { [kind |-> "response", status_code |-> 200],
      [kind |-> "response", status_code |-> 503],
      [kind |-> "response", status_code |-> 500],
      [kind |-> "timeout", status_code |-> 0],
      [kind |-> "error", status_code |-> 0] }

\* What POST /run can do.  The status code is never read.
JobIds == {"job-a", "job-b"}
SubmitResponses ==
    { [kind |-> "response", body |-> "dict", json |-> [id |-> j]] : j \in JobIds }
    \cup
    { [kind |-> "response", body |-> "dict", json |-> [error |-> "rejected"]],
      [kind |-> "response", body |-> "garbage", json |-> Null],
      [kind |-> "timeout", body |-> "garbage", json |-> Null],
      [kind |-> "error", body |-> "garbage", json |-> Null] }

\* What POST /run of the wake-up call can do.
WakeResponses ==
    { [kind |-> "response", status_code |-> 200, body |-> "dict"],
      [kind |-> "response", status_code |-> 200, body |-> "garbage"],
      [kind |-> "response", status_code |-> 500, body |-> "dict"],
      [kind |-> "error", status_code |-> 0, body |-> "garbage"] }

\* The points of the drawing and the lines between them.
LineA == [start |-> 1, end |-> 2]
LineB == [start |-> 2, end |-> 3]
Broken == [start |-> 3]

\* The lines of the Home feed.  sse is "blank" (an empty line), "other" (a
\* line that does not start with "data: ") or "data"; a data line carries
\* text that is no JSON ("garbage"), JSON that is no object ("list") or an
\* event object ("dict") with its type.  has is FALSE when the event lacks
\* the fields its type is read for (start/end of a new_line, current/total
\* of a progress event); lines are the lines of a new_line (one) or of a
\* new_lines_batch; sequence is the payload of a final_sequence.
FeedLine(sse, json, type, has, lines, sequence) ==
    [sse |-> sse, json |-> json, type |-> type, has |-> has, lines |-> lines, sequence |-> sequence]

Event(type, has, lines, sequence) == FeedLine("data", "dict", type, has, lines, sequence)

FeedLines ==
    { FeedLine("blank", None, None, FALSE, <<>>, <<>>),
      FeedLine("other", None, None, FALSE, <<>>, <<>>),
      FeedLine("data", "garbage", None, FALSE, <<>>, <<>>),
      FeedLine("data", "list", None, FALSE, <<>>, <<>>),
      Event("new_line", TRUE, <<LineA>>, <<>>),
      Event("new_line", TRUE, <<LineB>>, <<>>),
      Event("new_line", FALSE, <<Broken>>, <<>>),
      Event("new_lines_batch", TRUE, <<LineB, LineA>>, <<>>),
      Event("new_lines_batch", TRUE, <<LineA, Broken>>, <<>>),
      Event("progress", TRUE, <<>>, <<>>),
      Event("progress", FALSE, <<>>, <<>>),
      Event("error", TRUE, <<>>, <<>>),
      Event("final_sequence", TRUE, <<>>, <<1, 2, 3>>),
      Event("final_sequence", TRUE, <<>>, <<3, 1>>) }

\* What GET /status/{id} can do.  status "absent" is a body without one.
PollResponses ==
    { [kind |-> "response", body |-> "dict", status |-> st, output |-> None, message |-> None] :
          st \in {"IN_QUEUE", "IN_PROGRESS", "CANCELLED", "absent"} }
    \cup
    { [kind |-> "response", body |-> "dict", status |-> st, output |-> o, message |-> m] :
          st \in {"COMPLETED", "FAILED"},
          o \in {"success", "error", "absent"},
          m \in {"out of memory", "absent"} }
    \cup
    { [kind |-> "response", body |-> "garbage", status |-> "absent", output |-> None, message |-> None],
      [kind |-> "timeout", body |-> "garbage", status |-> "absent", output |-> None, message |-> None],
      [kind |-> "error", body |-> "garbage", status |-> "absent", output |-> None, message |-> None] }

\* The time a status request takes, in ticks.
Latencies == {0, MaxLatency}

\* ------------------------------------------------- messages to the client
MsgPreprocessing == "status: Pre-processing..."
MsgImageLoaded == "status: Image loaded! Click Generate."
MsgReadyHome == "status: READY! Using Home GPU (data cached)"
MsgReadyRunpod == "status: READY! RunPod cached (data ready)"
MsgProcessingRunpod == "status: Processing on RunPod..."
MsgStarting == "status: Starting generation..."
MsgConfigError == "status: Server config error: Missing API keys."
MsgComplete == "status: Generation complete!"
MsgServerError == "status: GPU server error"
MsgSubmitError == "status: Error: failed to submit"
MsgJobQueuedRunpod == "status: Job queued on RunPod..."
MsgQueued == "status: Job queued..."
MsgGenerating == "status: Generating on RunPod..."
MsgTimedOut == "status: Error: Job timed out."
MsgPollError == "status: Error checking job status."
MsgCancelling == "status: Cancelling..."
MsgHomeReady == "status: Home GPU ready!"
MsgWaking == "status: RunPod waking up..."
MsgStreamLines == "status: Generating... current/total lines"
MsgStreamError == "status: Error: message of the error event"
MsgGpuError(m) == "status: GPU Error: " \o (IF m = "absent" THEN "Unknown GPU error" ELSE m)
EvPreprocessingComplete(p) == "preprocessing_complete: " \o p
EvProgress(p) == "progress: " \o p
EvFinalSequence == "final_sequence"
EvNewLine == "new_line"

\* ------------------------------------------------------------- GPURouter
\* A verdict that forgets gpu_busy.
HealthVerdictIgnoresBusy(r) ==
    /\ r.kind = "response"
    /\ r.status_code = 200
    /\ r.body = "dict"
    /\ Truthy(r.gpu_available)

\* A verdict that takes a 200 it cannot read for a healthy Home.
HealthVerdictFailsOpen(r) ==
    /\ r.kind = "response"
    /\ r.status_code = 200
    /\ r.body # "dict" \/ (Truthy(r.gpu_available) /\ ~Truthy(r.gpu_busy))

\* check_home_gpu_health: the verdict on a probe that was sent.
HealthVerdict(r) ==
    /\ r.kind = "response"
    /\ r.status_code = 200
    /\ r.body = "dict"
    /\ Truthy(r.gpu_available)
    /\ ~Truthy(r.gpu_busy)

\* check_home_gpu_health: whether the probe sets last_health_check.
HealthStamps(r) == r.kind = "response" /\ r.status_code = 200 /\ r.body = "dict"

\* _preprocess_on_home, _generate_on_home_legacy: the call returns a result.
HomeSucceeds(r) == r.kind = "response" /\ r.status_code = 200 /\ r.body = "dict"

\* A relay that reads the body of any answer as a feed.
StreamOpensOnAnyStatus(r) == r.kind = "response"

\* _generate_stream_on_home: the feed is opened.
StreamOpens(r) == r.kind = "response" /\ r.status_code = 200

\* An operation that does not count itself.
RecordRequestDropped(st) == st

\* An except clause that counts the failure against the Queue.
RecordHomeFailureOnQueue(st) == [st EXCEPT !.runpod_failures = @ + 1]

\* An except clause that takes the failed attempt back.
RecordHomeFailureUndoes(st) == [st EXCEPT !.home_failures = @ + 1, !.home_requests = @ - 1]

\* An except clause that re-raises without counting.
RecordHomeFailureDropped(st) == st

\* The except clause of the _on_home methods.
RecordHomeFailure(st) == [st EXCEPT !.home_failures = @ + 1]

\* An increment that is lost when another call has counted already.
RecordHomeRequestLost(st) == [st EXCEPT !.home_requests = IF @ = 0 THEN 1 ELSE @]

\* The first statement of the _on_home methods.
RecordHomeRequest(st) == [st EXCEPT !.home_requests = @ + 1]

\* A Queue submission that is not counted.
RecordRunpodRequestDropped(st) == st

\* The first statement of the _on_runpod methods.
RecordRunpodRequest(st) == [st EXCEPT !.runpod_requests = @ + 1]

\* The first statement of preprocess, generate and generate_stream.
RecordRequest(st) == [st EXCEPT !.total_requests = @ + 1]

\* A test of the endpoint that takes None for an endpoint.
HomeConfiguredAlways(url) == url = url

\* `self.home_gpu_url and ...`, `if not self.home_gpu_url`.
HomeConfigured(url) == url # None

\* A dispatch that trusts the flag the last call left behind.
TriesHomeIfFlagged(url, flag) == HomeConfigured(url) /\ flag

\* `if self.home_gpu_url and self.check_home_gpu_health()`: the operation
\* probes Home whenever Home is configured, whatever home_gpu_available is.
TriesHome(url, flag) == HomeConfigured(url)

\* A check of the configuration that forgets the endpoint id.
RunpodConfiguredKeyOnly(key, endpoint) == key

\* `if not RUNPOD_API_KEY or not RUNPOD_ENDPOINT_ID` is false.
RunpodConfigured(key, endpoint) == key /\ endpoint

\* A rate computed without the test for zero requests; den 0 is the
\* ZeroDivisionError.
SuccessRateUnguarded(requests, failures) ==
    [num |-> (requests - failures) * 100, den |-> requests]

\* get_stats: (requests - failures) / requests * 100, as the fraction
\* num / den, and 0 when there were no requests.
SuccessRate(requests, failures) ==
    IF requests > 0
    THEN [num |-> (requests - failures) * 100, den |-> requests]
    ELSE [num |-> 0, den |-> 1]

\* The router operation a handler calls.
RouterOp(h) ==
    CASE h = "preprocess_image" -> "preprocess"
      [] h = "start_generation" -> "generate_stream"
      [] h = "start_generation_legacy" -> "generate"
      [] OTHER -> "check_home_gpu_health"

\* --------------------------------------------------------- on_stream_event
WellFormed(l) == "start" \in DOMAIN l /\ "end" \in DOMAIN l

\* The longest prefix of lines whose members all have start and end.
RECURSIVE GoodPrefix(_)
GoodPrefix(ls) ==
    IF ls = <<>> \/ ~WellFormed(Head(ls)) THEN <<>> ELSE <<Head(ls)>> \o GoodPrefix(Tail(ls))

RECURSIVE Reverse(_)
Reverse(ls) == IF ls = <<>> THEN <<>> ELSE Append(Reverse(Tail(ls)), Head(ls))

\* A sink that walks a batch from its end.
SinkLinesReversed(e) ==
    IF e.type \in {"new_line", "new_lines_batch"} THEN Reverse(GoodPrefix(e.lines)) ELSE <<>>

\* The new_line events the sink emits for an event, up to the line it fails on.
SinkLines(e) ==
    IF e.type \in {"new_line", "new_lines_batch"} THEN GoodPrefix(e.lines) ELSE <<>>

\* The sink fails on the event: a KeyError on a field the event lacks.
SinkRaises(e) ==
    \/ e.type \in {"new_line", "new_lines_batch"} /\ Len(GoodPrefix(e.lines)) < Len(e.lines)
    \/ e.type = "progress" /\ ~e.has

\* The other messages the sink emits for an event.
SinkTags(e) ==
    CASE e.type \in {"new_line", "new_lines_batch"} ->
             IF SinkLines(e) = <<>> THEN {} ELSE {EvNewLine}
      [] e.type = "progress" ->
             {EvProgress("percent")} \cup (IF e.has THEN {MsgStreamLines} ELSE {})
      [] e.type = "error" -> {MsgStreamError}
      [] OTHER -> {}

\* ------------------------------------------------------------ polling loops
\* An interval table that widens to 2.0 s after 20 polls.
GenPollIntervalWidensEarly(n) ==
    IF n < 10 THEN TicksPerSecond \div 2
    ELSE IF n < 20 THEN TicksPerSecond
    ELSE 2 * TicksPerSecond

\* handle_start_generation: poll_interval for a poll_count, in ticks.
GenPollInterval(n) ==
    IF n < 10 THEN TicksPerSecond \div 2
    ELSE IF n < 30 THEN TicksPerSecond
    ELSE 2 * TicksPerSecond

\* handle_preprocess: poll_interval for a poll_count, in ticks.
PrepPollInterval(n) ==
    IF n < 10 THEN TicksPerSecond \div 2
    ELSE IF n < 20 THEN TicksPerSecond
    ELSE 2 * TicksPerSecond

PollInterval(h, n) == IF h = "preprocess_image" THEN PrepPollInterval(n) ELSE GenPollInterval(n)

\* A loop without the test of the ceiling.
GenTimedOutNever(t) == t < 0

\* handle_start_generation: `if elapsed > 300`.
GenTimedOut(t) == t > GenCeiling * TicksPerSecond

\* handle_preprocess: the loop condition `time.time() - start_time < 60` fails.
PrepTimedOut(t) == ~(t < PrepCeiling * TicksPerSecond)

TimedOut(h, t) == IF h = "preprocess_image" THEN PrepTimedOut(t) ELSE GenTimedOut(t)

\* ------------------------------------------------------------------ state
ZeroStats ==
    [home_requests |-> 0, runpod_requests |-> 0, home_failures |-> 0,
     runpod_failures |-> 0, total_requests |-> 0]

ZeroCalls == [health |-> 0, home |-> 0, run |-> 0]

\* GPURouter.__init__ and the module-level configuration of app.py.
Init ==
    /\ home_gpu_url \in {None, "http://home:8001"}
    /\ RUNPOD_API_KEY \in BOOLEAN
    /\ RUNPOD_ENDPOINT_ID \in BOOLEAN
    /\ home_gpu_available = FALSE
    /\ last_health_check = 0
    /\ stats = ZeroStats
    /\ net = [health |-> 0, home |-> 0, run |-> 0, status |-> 0]
    /\ handler = [s \in Sessions |-> None]
    /\ pc = [s \in Sessions |-> "idle"]
    /\ health = [s \in Sessions |-> FALSE]
    /\ calls = [s \in Sessions |-> ZeroCalls]
    /\ response = [s \in Sessions |-> Null]
    /\ result = [s \in Sessions |-> Null]
    /\ provider = [s \in Sessions |-> None]
    /\ feed = [s \in Sessions |-> <<>>]
    /\ final_result = [s \in Sessions |-> Null]
    /\ lines_out = [s \in Sessions |-> <<>>]
    /\ final_out = [s \in Sessions |-> <<>>]
    /\ seen = [s \in Sessions |-> {}]
    /\ outcome = [s \in Sessions |-> "none"]
    /\ job_id = [s \in Sessions |-> None]
    /\ poll_count = [s \in Sessions |-> 0]
    /\ poll_interval = [s \in Sessions |-> 0]
    /\ elapsed = [s \in Sessions |-> 0]
    /\ poll_json = [s \in Sessions |-> Null]
    /\ polled = [s \in Sessions |-> {}]

\* A handler starts with nothing left of the session's previous request.
FreshSession(s, h) ==
    /\ handler' = [handler EXCEPT ![s] = h]
    /\ health' = [health EXCEPT ![s] = FALSE]
    /\ response' = [response EXCEPT ![s] = Null]
    /\ result' = [result EXCEPT ![s] = Null]
    /\ provider' = [provider EXCEPT ![s] = None]
    /\ feed' = [feed EXCEPT ![s] = <<>>]
    /\ final_result' = [final_result EXCEPT ![s] = Null]
    /\ lines_out' = [lines_out EXCEPT ![s] = <<>>]
    /\ final_out' = [final_out EXCEPT ![s] = <<>>]
    /\ job_id' = [job_id EXCEPT ![s] = None]
    /\ poll_count' = [poll_count EXCEPT ![s] = 0]
    /\ poll_interval' = [poll_interval EXCEPT ![s] = 0]
    /\ elapsed' = [elapsed EXCEPT ![s] = 0]
    /\ poll_json' = [poll_json EXCEPT ![s] = Null]
    /\ polled' = [polled EXCEPT ![s] = {}]

\* The first message of a handler.
FirstMessage(h) ==
    CASE h = "preprocess_image" -> {MsgPreprocessing}
      [] h \in {"start_generation", "start_generation_legacy"} -> {MsgStarting}
      [] OTHER -> {}

\* The message of a handler that finds the Queue configuration missing.
ConfigMessage(h) == IF h = "preprocess_image" THEN {MsgImageLoaded} ELSE {MsgConfigError}

RequestHandlers == {"preprocess_image", "start_generation", "start_generation_legacy"}

\* handle_preprocess and handle_start_generation up to the first network
\* call of the router operation: the configuration check, total_requests,
\* and either the health probe (Home configured) or the Queue submission.
HandleRequest(s, h) ==
    /\ pc[s] = "idle"
    /\ h \in RequestHandlers
    /\ FreshSession(s, h)
    /\ UNCHANGED <<cfgVars, home_gpu_available, last_health_check>>
    /\ IF ~RunpodConfigured(RUNPOD_API_KEY, RUNPOD_ENDPOINT_ID)
       THEN /\ seen' = [seen EXCEPT ![s] = FirstMessage(h) \cup ConfigMessage(h)]
            /\ outcome' = [outcome EXCEPT ![s] = "config_error"]
            /\ calls' = [calls EXCEPT ![s] = ZeroCalls]
            /\ UNCHANGED <<pc, stats, net>>
       ELSE /\ seen' = [seen EXCEPT ![s] = FirstMessage(h)]
            /\ outcome' = [outcome EXCEPT ![s] = "none"]
            /\ IF TriesHome(home_gpu_url, home_gpu_available)
               THEN /\ stats' = RecordRequest(stats)
                    /\ net' = [net EXCEPT !.health = @ + 1]
                    /\ calls' = [calls EXCEPT ![s] = [ZeroCalls EXCEPT !.health = 1]]
                    /\ pc' = [pc EXCEPT ![s] = "health"]
               ELSE /\ stats' = RecordRunpodRequest(RecordRequest(stats))
                    /\ net' = [net EXCEPT !.run = @ + 1]
                    /\ calls' = [calls EXCEPT ![s] = [ZeroCalls EXCEPT !.run = 1]]
                    /\ pc' = [pc EXCEPT ![s] = "submit"]

\* A handler that takes every answer of the Queue for an accepted job and
\* reads the id with .get.
AfterRouterUnchecked(s, res, prov) ==
    LET h == handler[s]
        prep == h = "preprocess_image"
        accepted == prov = "runpod"
    IN  /\ result' = [result EXCEPT ![s] = res]
        /\ provider' = [provider EXCEPT ![s] = prov]
        /\ seen' = [seen EXCEPT ![s] = @ \cup
              (CASE prov = "home" /\ prep -> {MsgReadyHome, EvPreprocessingComplete("home")}
                 [] prov = "home" /\ ~prep -> {MsgComplete, EvProgress("100"), EvFinalSequence}
                 [] accepted /\ prep -> {MsgProcessingRunpod}
                 [] OTHER -> {MsgJobQueuedRunpod, EvProgress("5")})]
        /\ outcome' = [outcome EXCEPT ![s] = IF prov = "home" THEN "home_success" ELSE "none"]
        /\ final_out' = [final_out EXCEPT ![s] =
              IF prov = "home" /\ ~prep THEN Append(@, [payload |-> res, provider |-> "home"]) ELSE @]
        /\ job_id' = [job_id EXCEPT ![s] =
              IF accepted /\ "id" \in DOMAIN res THEN res.id ELSE None]
        /\ pc' = [pc EXCEPT ![s] = IF accepted THEN "sleep" ELSE "idle"]
        /\ poll_count' = [poll_count EXCEPT ![s] = 0]
        /\ elapsed' = [elapsed EXCEPT ![s] = 0]
        /\ poll_interval' = [poll_interval EXCEPT ![s] = IF accepted THEN PollInterval(h, 0) ELSE @]

\* The handler once the router operation has returned (res, prov): the Home
\* result is emitted, or the Queue response is checked for an id and the
\* polling loop is set up and entered.
AfterRouter(s, res, prov) ==
    LET h == handler[s]
        prep == h = "preprocess_image"
        accepted == prov = "runpod" /\ "id" \in DOMAIN res
    IN  /\ result' = [result EXCEPT ![s] = res]
        /\ provider' = [provider EXCEPT ![s] = prov]
        /\ seen' = [seen EXCEPT ![s] = @ \cup
              (CASE prov = "home" /\ prep -> {MsgReadyHome, EvPreprocessingComplete("home")}
                 [] prov = "home" /\ ~prep -> {MsgComplete, EvProgress("100"), EvFinalSequence}
                 [] accepted /\ prep -> {MsgProcessingRunpod}
                 [] accepted /\ ~prep -> {MsgJobQueuedRunpod, EvProgress("5")}
                 [] OTHER -> IF prep THEN {MsgImageLoaded} ELSE {MsgServerError})]
        /\ outcome' = [outcome EXCEPT ![s] =
              IF prov = "home" THEN "home_success" ELSE IF accepted THEN "none" ELSE "no_id"]
        /\ final_out' = [final_out EXCEPT ![s] =
              IF prov = "home" /\ ~prep THEN Append(@, [payload |-> res, provider |-> "home"]) ELSE @]
        /\ job_id' = [job_id EXCEPT ![s] = IF accepted THEN res.id ELSE @]
        /\ pc' = [pc EXCEPT ![s] = IF accepted THEN "sleep" ELSE "idle"]
        /\ poll_count' = [poll_count EXCEPT ![s] = 0]
        /\ elapsed' = [elapsed EXCEPT ![s] = 0]
        /\ poll_interval' = [poll_interval EXCEPT ![s] = IF accepted THEN PollInterval(h, 0) ELSE @]

\* A handler without the except clause: the exception leaves it.
AfterRaiseEscapes(s) ==
    /\ outcome' = [outcome EXCEPT ![s] = "unhandled"]
    /\ pc' = [pc EXCEPT ![s] = "idle"]
    /\ UNCHANGED <<seen, result, provider, final_out, job_id, poll_count, elapsed, poll_interval>>

\* The handler once the router operation has raised: the except clause
\* around the submission.
AfterRaise(s) ==
    /\ seen' = [seen EXCEPT ![s] = @ \cup
          (IF handler[s] = "preprocess_image" THEN {MsgImageLoaded} ELSE {MsgSubmitError})]
    /\ outcome' = [outcome EXCEPT ![s] = "submit_error"]
    /\ pc' = [pc EXCEPT ![s] = "idle"]
    /\ UNCHANGED <<result, provider, final_out, job_id, poll_count, elapsed, poll_interval>>

\* An operation whose except clause leaves the flag as the probe set it.
FallBackKeepsFlag(s) ==
    /\ stats' = RecordRunpodRequest(RecordHomeFailure(stats))
    /\ net' = [net EXCEPT !.run = @ + 1]
    /\ calls' = [calls EXCEPT ![s].run = @ + 1]
    /\ pc' = [pc EXCEPT ![s] = "submit"]
    /\ UNCHANGED <<home_gpu_available, last_health_check, health, result, provider, outcome,
                   final_out, job_id, handler, pollVars>>

\* A Home call that failed: the except clause of the _on_home method counts
\* the failure and re-raises, the except clause of the operation clears the
\* flag, and the operation goes on to the Queue submission.
FallBackToQueue(s) ==
    /\ stats' = RecordRunpodRequest(RecordHomeFailure(stats))
    /\ home_gpu_available' = FALSE
    /\ net' = [net EXCEPT !.run = @ + 1]
    /\ calls' = [calls EXCEPT ![s].run = @ + 1]
    /\ pc' = [pc EXCEPT ![s] = "submit"]
    /\ UNCHANGED <<last_health_check, health, result, provider, outcome, final_out, job_id,
                   handler, pollVars>>

\* check_home_gpu_health called on its own (the start of app.py, a caller of
\* the router) up to its network call; none is made when Home is not
\* configured, and the call returns False.
CheckHealth(s) ==
    /\ pc[s] = "idle"
    /\ FreshSession(s, "health_check")
    /\ seen' = [seen EXCEPT ![s] = {}]
    /\ outcome' = [outcome EXCEPT ![s] = "none"]
    /\ UNCHANGED <<cfgVars, routerVars>>
    /\ IF HomeConfigured(home_gpu_url)
       THEN /\ net' = [net EXCEPT !.health = @ + 1]
            /\ calls' = [calls EXCEPT ![s] = [ZeroCalls EXCEPT !.health = 1]]
            /\ pc' = [pc EXCEPT ![s] = "health"]
       ELSE /\ calls' = [calls EXCEPT ![s] = ZeroCalls]
            /\ UNCHANGED <<net, pc>>

\* handle_wake_gpu up to its first network call: the health probe, or with
\* Home not configured the wake-up submission to the Queue.
HandleWakeGpu(s) ==
    /\ pc[s] = "idle"
    /\ FreshSession(s, "wake_gpu")
    /\ seen' = [seen EXCEPT ![s] = {}]
    /\ outcome' = [outcome EXCEPT ![s] = "none"]
    /\ UNCHANGED <<cfgVars, routerVars>>
    /\ IF HomeConfigured(home_gpu_url)
       THEN /\ net' = [net EXCEPT !.health = @ + 1]
            /\ calls' = [calls EXCEPT ![s] = [ZeroCalls EXCEPT !.health = 1]]
            /\ pc' = [pc EXCEPT ![s] = "health"]
       ELSE IF RunpodConfigured(RUNPOD_API_KEY, RUNPOD_ENDPOINT_ID)
       THEN /\ net' = [net EXCEPT !.run = @ + 1]
            /\ calls' = [calls EXCEPT ![s] = [ZeroCalls EXCEPT !.run = 1]]
            /\ pc' = [pc EXCEPT ![s] = "wake"]
       ELSE /\ calls' = [calls EXCEPT ![s] = ZeroCalls]
            /\ UNCHANGED <<net, pc>>

\* The health probe ends with r: check_home_gpu_health returns, and its
\* caller goes on to its next network call.
ProbeReturn(s, r) ==
    /\ pc[s] = "health"
    /\ r \in ProbeResponses
    /\ response' = [response EXCEPT ![s] = r]
    /\ LET ok == HealthVerdict(r)
       IN  /\ health' = [health EXCEPT ![s] = ok]
           /\ home_gpu_available' = ok
           /\ last_health_check' = IF HealthStamps(r) THEN net.health ELSE last_health_check
           /\ UNCHANGED <<cfgVars, streamVars, pollVars, handler, result, provider, final_out, job_id,
                          outcome>>
           /\ CASE handler[s] \in RequestHandlers /\ ok ->
                     /\ stats' = RecordHomeRequest(stats)
                     /\ net' = [net EXCEPT !.home = @ + 1]
                     /\ calls' = [calls EXCEPT ![s].home = @ + 1]
                     /\ pc' = [pc EXCEPT ![s] = "home"]
                     /\ UNCHANGED seen
                [] handler[s] \in RequestHandlers /\ ~ok ->
                     /\ stats' = RecordRunpodRequest(stats)
                     /\ net' = [net EXCEPT !.run = @ + 1]
                     /\ calls' = [calls EXCEPT ![s].run = @ + 1]
                     /\ pc' = [pc EXCEPT ![s] = "submit"]
                     /\ UNCHANGED seen
                [] handler[s] = "wake_gpu" /\ ok ->
                     /\ seen' = [seen EXCEPT ![s] = @ \cup {MsgHomeReady}]
                     /\ pc' = [pc EXCEPT ![s] = "idle"]
                     /\ UNCHANGED <<stats, net, calls>>
                [] handler[s] = "wake_gpu" /\ ~ok
                     /\ RunpodConfigured(RUNPOD_API_KEY, RUNPOD_ENDPOINT_ID) ->
                     /\ net' = [net EXCEPT !.run = @ + 1]
                     /\ calls' = [calls EXCEPT ![s].run = @ + 1]
                     /\ pc' = [pc EXCEPT ![s] = "wake"]
                     /\ UNCHANGED <<stats, seen>>
                [] OTHER ->
                     /\ pc' = [pc EXCEPT ![s] = "idle"]
                     /\ UNCHANGED <<stats, net, calls, seen>>

\* The wake-up submission of handle_wake_gpu ends with r.
WakeReturn(s, r) ==
    /\ pc[s] = "wake"
    /\ r \in WakeResponses
    /\ response' = [response EXCEPT ![s] = r]
    /\ seen' = [seen EXCEPT ![s] =
          IF r.kind = "response" /\ r.status_code = 200 /\ r.body = "dict"
          THEN @ \cup {MsgWaking} ELSE @]
    /\ pc' = [pc EXCEPT ![s] = "idle"]
    /\ UNCHANGED <<cfgVars, routerVars, net, callVars, streamVars, pollVars, handler, result,
                   provider, outcome, final_out, job_id>>

\* POST /preprocess or POST /generate ends with r: the operation returns
\* the Home result, or falls back to the Queue.
HomeReturn(s, r) ==
    /\ pc[s] = "home"
    /\ RouterOp(handler[s]) \in {"preprocess", "generate"}
    /\ r \in HomeResponses
    /\ response' = [response EXCEPT ![s] = r]
    /\ UNCHANGED <<cfgVars, streamVars, poll_json, polled>>
    /\ IF HomeSucceeds(r)
       THEN /\ AfterRouter(s, r.json, "home")
            /\ UNCHANGED <<routerVars, net, callVars, handler>>
       ELSE /\ FallBackToQueue(s)
            /\ UNCHANGED seen

\* POST /generate_stream answers with r: the feed is read, or the operation
\* falls back to the Queue.
StreamOpen(s, r) ==
    /\ pc[s] = "home"
    /\ RouterOp(handler[s]) = "generate_stream"
    /\ r \in StreamResponses
    /\ response' = [response EXCEPT ![s] = r]
    /\ UNCHANGED <<cfgVars, streamVars, seen>>
    /\ IF StreamOpens(r)
       THEN /\ pc' = [pc EXCEPT ![s] = "stream"]
            /\ UNCHANGED <<routerVars, net, callVars, pollVars, handler, result, provider,
                           outcome, final_out, job_id>>
       ELSE FallBackToQueue(s)

\* The line is skipped (blank, or not a data line) or dropped (its text is
\* no JSON: the JSONDecodeError is caught inside the loop).
Skipped(l) == l.sse # "data" \/ l.json = "garbage"

\* A loop whose except clause catches every exception.
BreaksCaught(l) == l # l

\* Handling the line raises out of the loop: .get on JSON that is no
\* object, or the sink failing on the event.
Breaks(l) == ~Skipped(l) /\ (l.json # "dict" \/ SinkRaises(l))

\* A relay that keeps the first final_sequence of the feed.
KeepFirstFinal(prev, l) ==
    IF prev = Null /\ ~Skipped(l) /\ l.type = "final_sequence" THEN l ELSE prev

\* `if event_type == "final_sequence": final_result = event_data`.
KeepFinal(prev, l) ==
    IF ~Skipped(l) /\ l.type = "final_sequence" THEN l ELSE prev

\* A relay that returns whatever it holds when the feed ends.
HasFinalUnchecked(fr) == fr = fr

\* `if final_result:` after the loop.
HasFinal(fr) == fr # Null

\* One line of the feed is read and handled.
StreamRead(s, l) ==
    /\ pc[s] = "stream"
    /\ Len(feed[s]) < MaxFeed
    /\ l \in FeedLines
    /\ feed' = [feed EXCEPT ![s] = Append(@, l)]
    /\ UNCHANGED <<cfgVars, response>>
    /\ IF Skipped(l) \/ l.json # "dict"
       THEN UNCHANGED <<lines_out, seen>>
       ELSE /\ lines_out' = [lines_out EXCEPT ![s] = @ \o SinkLines(l)]
            /\ seen' = [seen EXCEPT ![s] = @ \cup SinkTags(l)]
    /\ IF Breaks(l)
       THEN /\ FallBackToQueue(s)
            /\ UNCHANGED final_result
       ELSE /\ final_result' = [final_result EXCEPT ![s] = KeepFinal(@, l)]
            /\ UNCHANGED <<routerVars, net, callVars, pollVars, handler, pc, result, provider,
                           outcome, final_out, job_id>>

\* The feed ends: the operation returns the final result, or there is none
\* and it falls back to the Queue.
StreamClose(s) ==
    /\ pc[s] = "stream"
    /\ UNCHANGED <<cfgVars, response, streamVars, poll_json, polled>>
    /\ IF HasFinal(final_result[s])
       THEN /\ AfterRouter(s, final_result[s], "home")
            /\ UNCHANGED <<routerVars, net, callVars, handler>>
       ELSE /\ FallBackToQueue(s)
            /\ UNCHANGED seen

\* Reading the feed fails (the connection breaks, the read times out).
StreamError(s) ==
    /\ pc[s] = "stream"
    /\ response' = [response EXCEPT ![s] = [kind |-> "error", status_code |-> 0]]
    /\ FallBackToQueue(s)
    /\ UNCHANGED <<cfgVars, streamVars, seen>>

\* A submission whose failure is not noticed.
SubmitRespondsUnchecked(r) == r = r

\* The Queue submission returns a body that parses.
SubmitResponds(r) == r.kind = "response" /\ r.body = "dict"

\* POST /run ends with r: the operation returns (response.json(), "runpod")
\* or raises, and the handler goes on.
SubmitReturn(s, r) ==
    /\ pc[s] = "submit"
    /\ r \in SubmitResponses
    /\ response' = [response EXCEPT ![s] = r]
    /\ UNCHANGED <<cfgVars, routerVars, net, callVars, streamVars, poll_json, polled, handler>>
    /\ IF SubmitResponds(r)
       THEN AfterRouter(s, r.json, "runpod")
       ELSE AfterRaise(s)

\* socketio.sleep(poll_interval) ends: poll_count is advanced and the status
\* request is sent to job_status_url, the status URL of job_id.
Sleep(s) ==
    /\ pc[s] = "sleep"
    /\ polled' = [polled EXCEPT ![s] = @ \cup {job_id[s]}]
    /\ elapsed' = [elapsed EXCEPT ![s] = @ + poll_interval[s]]
    /\ poll_count' = [poll_count EXCEPT ![s] = @ + 1]
    /\ net' = [net EXCEPT !.status = @ + 1]
    /\ pc' = [pc EXCEPT ![s] = "poll"]
    /\ UNCHANGED <<cfgVars, routerVars, callVars, response, streamVars, poll_interval, poll_json, handler,
                   result, provider, seen, outcome, final_out, job_id>>

\* A status request whose timeout is swallowed.
PollRaisesUnlessTimeout(r) == r.kind = "error" \/ (r.kind = "response" /\ r.body # "dict")

\* The status request fails: a transport error, or a body that is no JSON.
PollRaises(r) == r.kind # "response" \/ r.body # "dict"

\* A dispatch that gives up a job whose status it does not know.
PollBranchUnknownFails(r) ==
    CASE r.kind # "response" \/ r.body # "dict" -> "poll_error"
      [] r.status = "COMPLETED" /\ r.output = "success" -> "completed"
      [] r.status = "COMPLETED" -> "logical_failure"
      [] r.status \in {"IN_QUEUE", "IN_PROGRESS"} -> "none"
      [] OTHER -> "failed"

\* The branch of the status dispatch the response takes.
PollBranch(r) ==
    CASE PollRaises(r) -> "poll_error"
      [] r.status = "COMPLETED" /\ r.output = "success" -> "completed"
      [] r.status = "COMPLETED" -> "logical_failure"
      [] r.status = "FAILED" -> "failed"
      [] OTHER -> "none"

\* A dispatch whose COMPLETED branch does not leave the loop.
LoopEndsUnlessCompleted(branch, late) == (branch # "none" /\ branch # "completed") \/ late

\* A dispatch whose FAILED branch does not leave the loop.
LoopEndsUnlessFailed(branch, late) == (branch # "none" /\ branch # "failed") \/ late

\* The loop is left: `break` and `return` in the branches of the dispatch,
\* and the ceiling.
LoopEnds(branch, late) == branch # "none" \/ late

\* What handle_start_generation emits for a status response.
GenPollMessages(r) ==
    CASE PollRaises(r) -> {MsgPollError}
      [] r.status = "IN_QUEUE" -> {MsgQueued, EvProgress("10")}
      [] r.status = "IN_PROGRESS" -> {MsgGenerating, EvProgress("min(15 + 2 * elapsed, 90)")}
      [] r.status = "COMPLETED" ->
             {MsgComplete, EvProgress("100")} \cup
             (IF r.output = "success" THEN {EvFinalSequence} ELSE {MsgGpuError(r.message)})
      [] r.status = "FAILED" -> {MsgGpuError(r.message)}
      [] OTHER -> {}

\* What handle_preprocess emits for a status response.
PrepPollMessages(r) ==
    CASE PollRaises(r) -> {MsgImageLoaded}
      [] r.status = "COMPLETED" ->
             IF r.output = "success"
             THEN {MsgReadyRunpod, EvPreprocessingComplete("runpod")}
             ELSE {MsgImageLoaded}
      [] r.status = "FAILED" -> {MsgImageLoaded}
      [] OTHER -> {}

PollMessages(h, r) == IF h = "preprocess_image" THEN PrepPollMessages(r) ELSE GenPollMessages(r)

\* What the handler emits when it gives the job up.
TimeoutMessages(h) == IF h = "preprocess_image" THEN {MsgImageLoaded} ELSE {MsgTimedOut}

\* The status request ends with r after lat ticks: the status is
\* dispatched; on a status that ends nothing the ceiling is tested
\* (handle_start_generation: after the dispatch; handle_preprocess: by the
\* loop condition) and the next sleep begins.
PollReturn(s, r, lat) ==
    /\ pc[s] = "poll"
    /\ r \in PollResponses
    /\ lat \in Latencies
    /\ LET h == handler[s]
           t == elapsed[s] + lat
           branch == PollBranch(r)
           late == branch = "none" /\ TimedOut(h, t)
           over == LoopEnds(branch, late)
       IN  /\ elapsed' = [elapsed EXCEPT ![s] = t]
           /\ poll_json' = [poll_json EXCEPT ![s] = r]
           /\ UNCHANGED polled
           /\ seen' = [seen EXCEPT ![s] =
                 @ \cup PollMessages(h, r) \cup (IF late THEN TimeoutMessages(h) ELSE {})]
           /\ outcome' = [outcome EXCEPT ![s] = IF late THEN "timeout" ELSE branch]
           /\ final_out' = [final_out EXCEPT ![s] =
                 IF branch = "completed" /\ h # "preprocess_image"
                 THEN Append(@, [payload |-> [status |-> r.output], provider |-> "runpod"])
                 ELSE @]
           /\ pc' = [pc EXCEPT ![s] = IF over THEN "idle" ELSE "sleep"]
           /\ poll_interval' = [poll_interval EXCEPT ![s] =
                 IF over THEN @ ELSE PollInterval(h, poll_count[s])]
    /\ UNCHANGED <<cfgVars, routerVars, net, callVars, response, streamVars, poll_count, handler,
                   result, provider, job_id>>

\* A cancel that ends the session's running handler.
HandleCancelAborts(s) ==
    /\ seen' = [seen EXCEPT ![s] = @ \cup {MsgCancelling}]
    /\ pc' = [pc EXCEPT ![s] = "idle"]
    /\ UNCHANGED <<cfgVars, routerVars, net, callVars, response, streamVars, pollVars, handler,
                   result, provider, outcome, final_out, job_id>>

\* handle_cancel: the request is acknowledged to the client.
HandleCancel(s) ==
    /\ seen' = [seen EXCEPT ![s] = @ \cup {MsgCancelling}]
    /\ UNCHANGED <<cfgVars, routerVars, net, callVars, response, streamVars, pollVars, handler,
                   pc, result, provider, outcome, final_out, job_id>>

\* get_stats: the counters, the health state and the derived rates.
get_stats ==
    [home_requests |-> stats.home_requests,
     runpod_requests |-> stats.runpod_requests,
     home_failures |-> stats.home_failures,
     runpod_failures |-> stats.runpod_failures,
     total_requests |-> stats.total_requests,
     home_gpu_available |-> home_gpu_available,
     home_gpu_enabled |-> home_gpu_url # None,
     last_health_check |-> last_health_check,
     home_success_rate |-> SuccessRate(stats.home_requests, stats.home_failures),
     runpod_success_rate |-> SuccessRate(stats.runpod_requests, stats.runpod_failures)]

\* ---------------------------------------------------------- specifications
\* The session whose requests are followed.
Main == {1}

\* The feed lines that decide how the relay ends: a dropped line, a line
\* that is no object, a line event the sink handles, one it fails on, and
\* a final_sequence.
CoreFeedLines ==
    { l \in FeedLines :
        \/ l.sse = "data" /\ l.json \in {"garbage", "list"}
        \/ l.type = "new_line" /\ l.lines \in {<<LineA>>, <<Broken>>}
        \/ l.type = "final_sequence" /\ l.sequence = <<1, 2, 3>> }

\* Router operations, health checks and the feed, for any sequence of
\* requests of the session; a request that reaches the polling loop stays
\* in it.
Next ==
    \E s \in Main :
        \/ \E h \in RequestHandlers : stats.total_requests < MaxRequests /\ HandleRequest(s, h)
        \/ net.health < MaxRequests /\ net.run < MaxRequests /\ HandleWakeGpu(s)
        \/ net.health < MaxRequests /\ CheckHealth(s)
        \/ \E r \in ProbeResponses : ProbeReturn(s, r)
        \/ \E r \in WakeResponses : WakeReturn(s, r)
        \/ \E r \in HomeResponses : HomeReturn(s, r)
        \/ \E r \in StreamResponses : StreamOpen(s, r)
        \/ \E l \in CoreFeedLines : StreamRead(s, l)
        \/ StreamClose(s)
        \/ StreamError(s)
        \/ \E r \in SubmitResponses : SubmitReturn(s, r)
        \/ HandleCancel(s)

Spec == Init /\ [][Next]_vars

\* A deployment without Home: every request goes to the Queue.
InitPoll == Init /\ home_gpu_url = None /\ RUNPOD_API_KEY /\ RUNPOD_ENDPOINT_ID

\* The handlers of app.py, the revision in use.
PollHandlers == {"preprocess_image", "start_generation"}

\* The answers to a submission, with one id for the accepted job.
PollSubmitResponses ==
    { r \in SubmitResponses : "id" \in DOMAIN r.json => r.json.id = "job-a" }

\* The first request of the process, followed through its polling loop.
NextPoll ==
    \E s \in Main :
        \/ \E h \in PollHandlers : stats.total_requests = 0 /\ HandleRequest(s, h)
        \/ \E r \in PollSubmitResponses : SubmitReturn(s, r)
        \/ Sleep(s)
        \/ \E r \in PollResponses, lat \in Latencies : PollReturn(s, r, lat)

SpecPoll == InitPoll /\ [][NextPoll]_vars

\* The status answers of a job that may stay queued or running for ever,
\* or end, or not be answered for.
LivePollResponses ==
    { r \in PollResponses :
        \/ r.kind = "timeout"
        \/ r.kind = "response" /\ r.status \in {"IN_QUEUE", "IN_PROGRESS"}
        \/ r.kind = "response" /\ r.status = "FAILED" /\ r.output = "error" /\ r.message = "absent"
        \/ r.kind = "response" /\ r.status = "COMPLETED" /\ r.output = "success"
             /\ r.message = "absent" }

\* The polling loops of the first request, with a Queue that answers every
\* status request at once or at the end of the request's timeout.
NextPollLive ==
    \E s \in Main :
        \/ \E h \in PollHandlers : stats.total_requests = 0 /\ HandleRequest(s, h)
        \/ \E r \in PollSubmitResponses : SubmitReturn(s, r)
        \/ poll_count[s] < MaxPollCount /\ Sleep(s)
        \/ \E r \in LivePollResponses, lat \in Latencies : PollReturn(s, r, lat)

\* Every status request returns or fails within its timeout, and every
\* socketio.sleep ends.
FairPoll ==
    \A s \in Main :
        /\ WF_vars(poll_count[s] < MaxPollCount /\ Sleep(s))
        /\ WF_vars(\E r \in LivePollResponses, lat \in Latencies : PollReturn(s, r, lat))

SpecPollLive == InitPoll /\ [][NextPollLive]_vars /\ FairPoll

\* A deployment with Home and the Queue.
InitStream == Init /\ home_gpu_url # None /\ RUNPOD_API_KEY /\ RUNPOD_ENDPOINT_ID

\* The first start_generation of the process, followed through the Home
\* feed, with every kind of feed line, up to the end of the router call.
NextStream ==
    \E s \in Main :
        \/ stats.total_requests = 0 /\ HandleRequest(s, "start_generation")
        \/ \E r \in ProbeResponses : ProbeReturn(s, r)
        \/ \E r \in StreamResponses : StreamOpen(s, r)
        \/ \E l \in FeedLines : StreamRead(s, l)
        \/ StreamClose(s)
        \/ StreamError(s)
        \/ \E r \in PollSubmitResponses : SubmitReturn(s, r)

SpecStream == InitStream /\ [][NextStream]_vars

\* The probe answers that decide the dispatch: healthy, busy, no answer.
CoreProbeResponses ==
    { r \in ProbeResponses :
        \/ r.kind = "timeout"
        \/ r.status_code = 200 /\ r.body = "dict" /\ r.gpu_available = "true"
             /\ r.gpu_busy \in {"true", "false"} }

\* The status answers that decide how a polling loop ends: still running,
\* done, done without success, failed, no answer.
CorePollResponses ==
    { r \in PollResponses :
        \/ r.kind = "timeout"
        \/ r.kind = "response" /\ r.status = "IN_PROGRESS"
        \/ r.kind = "response" /\ r.status \in {"COMPLETED", "FAILED"}
             /\ r.output \in {"success", "error"} /\ r.message = "out of memory" }

\* The first request of the process in any deployment, from the handler's
\* entry through Home, the Queue and a polling loop on a slow Queue (every
\* status request takes its full time) to the handler's end, with wake-up
\* calls, health checks and cancel requests for the running handler.
NextAll ==
    \E s \in Main :
        \/ \E h \in PollHandlers : stats.total_requests = 0 /\ HandleRequest(s, h)
        \/ net.health < MaxRequests /\ net.run < MaxRequests /\ HandleWakeGpu(s)
        \/ net.health < MaxRequests /\ CheckHealth(s)
        \/ \E r \in CoreProbeResponses : ProbeReturn(s, r)
        \/ \E r \in WakeResponses : WakeReturn(s, r)
        \/ \E r \in HomeResponses : HomeReturn(s, r)
        \/ \E r \in StreamResponses : StreamOpen(s, r)
        \/ \E l \in CoreFeedLines : StreamRead(s, l)
        \/ StreamClose(s)
        \/ StreamError(s)
        \/ \E r \in PollSubmitResponses : SubmitReturn(s, r)
        \/ Sleep(s)
        \/ \E r \in CorePollResponses : PollReturn(s, r, MaxLatency)
        \/ pc[s] # "idle" /\ HandleCancel(s)

SpecAll == Init /\ [][NextAll]_vars

\* Waits that hold the whole process: while another session waits for a
\* response or sleeps, none may run.
ScheduledBlocking(s) == \A t \in Sessions \ {s} : pc[t] = "idle"

\* eventlet.monkey_patch() and async_mode 'eventlet': every network call
\* and every socketio.sleep yields, so a session whose wait is over runs
\* whatever the other sessions wait for.
Scheduled(s) == s \in Sessions

\* The answers of the backends that decide the path of a request.
ConcHomeResponses ==
    { r \in HomeResponses : r.status_code = 503 \/ (r.body = "dict" /\ r.json = [cached |-> FALSE]) }

ConcProbeResponses == { r \in CoreProbeResponses : r.kind = "timeout" \/ r.gpu_busy = "false" }

ConcStreamResponses == { r \in StreamResponses : r.status_code \in {200, 503} }

ConcFeedLines == { l \in FeedLines : l.type = "final_sequence" /\ l.sequence = <<1, 2, 3>> }

ConcSubmitResponses == { r \in PollSubmitResponses : r.kind = "timeout" \/ "id" \in DOMAIN r.json }

ConcPollResponses ==
    { r \in CorePollResponses : r.kind = "timeout" \/ r.status = "IN_PROGRESS" \/ r.output = "success" }

\* One step of session s: its one request, from the handler's entry to
\* its end; a job is reported as running at most once.
StepConc(s) ==
    \/ \E h \in PollHandlers : handler[s] = None /\ HandleRequest(s, h)
    \/ \E r \in ConcProbeResponses : ProbeReturn(s, r)
    \/ \E r \in ConcHomeResponses : HomeReturn(s, r)
    \/ \E r \in ConcStreamResponses : StreamOpen(s, r)
    \/ \E l \in ConcFeedLines : StreamRead(s, l)
    \/ StreamClose(s)
    \/ \E r \in ConcSubmitResponses : SubmitReturn(s, r)
    \/ Sleep(s)
    \/ \E r \in ConcPollResponses :
          /\ r.kind = "response" /\ r.status = "IN_PROGRESS" => poll_json[s] = Null
          /\ PollReturn(s, r, MaxLatency)

RunConc(s) == Scheduled(s) /\ StepConc(s)

\* The sessions of the process, each with one request, interleaved at the
\* network calls and the sleeps.
NextConc == \E s \in Sessions : RunConc(s)

InitConc == Init /\ RUNPOD_API_KEY /\ RUNPOD_ENDPOINT_ID

SpecConc == InitConc /\ [][NextConc]_vars

\* ------------------------------------------------------------------ claims
\* The response is one to GET /health.
IsProbe(r) == r # Null /\ "gpu_busy" \in DOMAIN r

\* In this step the Home call of session s fails: a status other than 200
\* (503 or any other), a transport error or a timeout, before or while the
\* feed is read.
HomeCallFails(s) ==
    \/ /\ pc[s] = "home"
       /\ pc'[s] # "home"
       /\ response'[s].kind # "response" \/ response'[s].status_code # 200
    \/ /\ pc[s] = "stream"
       /\ response'[s].kind # "response"

\* C1: a router operation whose health probe was positive and whose Home
\* call fails counts exactly one Home failure, sends the Queue submission
\* without a second request to Home, and, when the Queue answers, returns
\* that answer with provider "runpod", the failure count and the single
\* Home attempt unchanged.
C1_HomeFailureFallsBack ==
    [][\A s \in Sessions :
        /\ HomeCallFails(s) =>
              /\ health[s]
              /\ pc'[s] = "submit"
              /\ stats'.home_failures = stats.home_failures + 1
              /\ stats'.runpod_requests = stats.runpod_requests + 1
              /\ net'.home = net.home
              /\ calls'[s].home = 1
              /\ calls'[s].run = 1
        /\ (/\ pc[s] = "submit"
            /\ calls[s].home = 1
            /\ pc'[s] # "submit"
            /\ response'[s].kind = "response"
            /\ response'[s].body = "dict") =>
              /\ provider'[s] = "runpod"
              /\ result'[s] = response'[s].json
              /\ stats' = stats
              /\ net' = net
              /\ calls'[s] = calls[s]
      ]_vars

C1_Witness ==
    \E s \in Sessions :
        /\ provider[s] = "runpod"
        /\ health[s]
        /\ calls[s].home = 1
        /\ stats.home_failures = 2
        /\ stats.total_requests = 2

\* C2: with no Home endpoint configured no request is ever sent to Home,
\* home_requests and home_failures stay 0, and every router operation that
\* was started was dispatched to the Queue.
C2_UnconfiguredNeverCallsHome ==
    home_gpu_url = None =>
        /\ net.health = 0
        /\ net.home = 0
        /\ stats.home_requests = 0
        /\ stats.home_failures = 0
        /\ stats.runpod_requests = stats.total_requests
        /\ ~home_gpu_available
        /\ \A s \in Sessions :
              /\ pc[s] \notin {"health", "home", "stream"}
              /\ provider[s] # "home"
              /\ ~health[s]
              /\ calls[s].health = 0 /\ calls[s].home = 0
              /\ handler[s] \in RequestHandlers /\ outcome[s] # "config_error" => calls[s].run = 1

C2_Witness ==
    /\ home_gpu_url = None
    /\ stats.total_requests = 2
    /\ net.run = 2
    /\ \E s \in Sessions : handler[s] = "health_check"

\* C3: a router operation whose health probe was positive and whose Home
\* call succeeds (status 200 with a result; for the streaming operation a
\* feed that holds a final_sequence) returns (result, "home") and leaves
\* runpod_requests and home_failures as they were.
C3_HomeSuccessNeedsNoQueue ==
    [][\A s \in Sessions :
        (/\ pc[s] \in {"home", "stream"}
         /\ pc'[s] \notin {"home", "stream"}
         /\ \/ /\ RouterOp(handler[s]) # "generate_stream"
               /\ response'[s].kind = "response"
               /\ response'[s].status_code = 200
               /\ response'[s].body = "dict"
            \/ /\ RouterOp(handler[s]) = "generate_stream"
               /\ \E i \in DOMAIN feed'[s] : feed'[s][i].type = "final_sequence") =>
              /\ provider'[s] = "home"
              /\ stats'.runpod_requests = stats.runpod_requests
              /\ stats'.home_failures = stats.home_failures
              /\ net'.run = net.run
      ]_vars

\* C4: check_home_gpu_health returns true only for a probe answered with
\* status 200 whose body has gpu_available true and gpu_busy not true; it
\* returns false whenever the body has gpu_available false or gpu_busy true.
C4_HealthyOnlyIfPresentAndIdle ==
    \A s \in Sessions :
        IsProbe(response[s]) =>
            /\ health[s] =>
                  /\ response[s].kind = "response"
                  /\ response[s].status_code = 200
                  /\ response[s].gpu_available = "true"
                  /\ response[s].gpu_busy # "true"
            /\ response[s].gpu_available = "false" \/ response[s].gpu_busy = "true" => ~health[s]

C4_Witness ==
    \E s \in Sessions :
        /\ IsProbe(response[s])
        /\ response[s].status_code = 200
        /\ response[s].gpu_available = "true"
        /\ response[s].gpu_busy = "true"
        /\ ~health[s]
        /\ pc[s] \in {"submit", "wake"}

\* The probe did not give a verdict: it timed out, failed in transport,
\* was answered with a status other than 200 or with a body that is no
\* JSON object.
ProbeUnusable(r) == r.kind # "response" \/ r.status_code # 200 \/ r.body # "dict"

\* C5 as amended: check_home_gpu_health fails closed.  With Home not
\* configured it returns false and sends no probe; when the probe times
\* out, fails in transport, is answered with a status other than 200 or
\* with a body that cannot be read, it returns false after that one probe,
\* and its caller goes on (a router operation to the Queue submission).
C5_HealthFailsClosed ==
    \A s \in Sessions :
        /\ calls[s].health <= 1
        /\ home_gpu_url = None /\ handler[s] \in {"health_check", "wake_gpu"} =>
              ~health[s] /\ calls[s].health = 0 /\ pc[s] # "health"
        /\ IsProbe(response[s]) /\ ProbeUnusable(response[s]) =>
              /\ ~health[s]
              /\ ~home_gpu_available
              /\ calls[s].health = 1
              /\ handler[s] \in RequestHandlers => pc[s] = "submit" /\ outcome[s] = "none"
              /\ handler[s] \notin RequestHandlers => pc[s] \in {"idle", "wake"}

C5_Witness ==
    /\ \E s \in Sessions :
          /\ IsProbe(response[s])
          /\ response[s].kind = "timeout"
          /\ ~health[s]
          /\ handler[s] = "wake_gpu"
          /\ pc[s] = "wake"

\* C5 as stated: the check sends exactly one probe also when Home is not
\* configured.
C5_ExactlyOneProbe ==
    \A s \in Sessions :
        (/\ handler[s] \in {"health_check", "wake_gpu"}
         /\ pc[s] # "health"
         /\ home_gpu_url = None \/ (IsProbe(response[s]) /\ ProbeUnusable(response[s]))) =>
              ~health[s] /\ calls[s].health = 1

\* What tells the client that the job succeeded.
SuccessIndications ==
    { EvFinalSequence, EvPreprocessingComplete("home"), EvPreprocessingComplete("runpod"),
      MsgComplete, MsgReadyHome, MsgReadyRunpod, EvProgress("100") }

\* The status response reports COMPLETED with a nested status that is not
\* "success".
CompletedUnsuccessful(r) ==
    /\ r # Null
    /\ r.kind = "response" /\ r.body = "dict"
    /\ r.status = "COMPLETED" /\ r.output # "success"

\* C6: a job reported COMPLETED with a nested status other than "success"
\* is reported to the client as a failure that carries the embedded
\* message, and no success indication is emitted for it.
C6_CompletedUnsuccessfulIsFailure ==
    \A s \in Sessions :
        CompletedUnsuccessful(poll_json[s]) =>
            /\ MsgGpuError(poll_json[s].message) \in seen[s]
            /\ seen[s] \cap SuccessIndications = {}

\* The ceiling of a handler's polling loop, in ticks.
Ceiling(h) == (IF h = "preprocess_image" THEN PrepCeiling ELSE GenCeiling) * TicksPerSecond

\* The status response reports a status that is neither COMPLETED nor FAILED.
NonTerminalReport(r) ==
    /\ r # Null
    /\ r.kind = "response" /\ r.body = "dict"
    /\ r.status \notin {"COMPLETED", "FAILED"}

\* C7: once the elapsed polling time of a job exceeds the ceiling of its
\* loop (300 s for generation, 60 s for preprocessing) and the status last
\* reported is neither COMPLETED nor FAILED, the job has ended as timed
\* out, whatever that status was.
C7_CeilingYieldsTimedOut ==
    \A s \in Sessions :
        (/\ pc[s] # "poll"
         /\ NonTerminalReport(poll_json[s])
         /\ elapsed[s] > Ceiling(handler[s])) =>
              /\ outcome[s] = "timeout"
              /\ pc[s] = "idle"
              /\ TimeoutMessages(handler[s]) \subseteq seen[s]

C7_Witness ==
    \E s \in Sessions :
        /\ handler[s] = "start_generation"
        /\ outcome[s] = "timeout"
        /\ poll_json[s].status = "CANCELLED"
        /\ elapsed[s] > GenCeiling * TicksPerSecond
        /\ {MsgQueued, MsgGenerating} \subseteq seen[s]

\* The wait the engine states for a poll count, in tenths of a second.
StatedWait(n) == IF n <= 9 THEN 5 ELSE IF n <= 29 THEN 10 ELSE 20

\* C8: in the generation loop the wait before the poll with count n is
\* 0.5 s for n in 0..9, 1.0 s for n in 10..29 and 2.0 s from 30 on, for
\* every n in 0..35.
C8_GenerationIntervals ==
    \A s \in Sessions :
        (/\ handler[s] \in {"start_generation", "start_generation_legacy"}
         /\ pc[s] = "sleep"
         /\ poll_count[s] \in 0..35) =>
              poll_interval[s] * 10 = StatedWait(poll_count[s]) * TicksPerSecond

C8_Witness ==
    \E s \in Sessions :
        /\ handler[s] = "start_generation"
        /\ pc[s] = "sleep"
        /\ poll_count[s] = 35
        /\ poll_interval[s] = 2 * TicksPerSecond

\* C9: in the preprocessing loop the wait before the poll with count n is
\* the one the engine states: 0.5 s for n in 0..9, 1.0 s for n in 10..29
\* and 2.0 s from 30 on.
C9_PreprocessingIntervals ==
    \A s \in Sessions :
        handler[s] = "preprocess_image" /\ pc[s] = "sleep" =>
            poll_interval[s] * 10 = StatedWait(poll_count[s]) * TicksPerSecond

\* The polling run of the handler has ended.
Terminal(o) == o \in {"completed", "logical_failure", "failed", "timeout", "poll_error"}

\* C10: once a polling run has ended (completed, failed, timed out, or a
\* status request failed in transport) the handler is over: no further
\* status request is sent for the job and no further outcome is emitted.
C10_TerminalIsAbsorbing ==
    [][\A s \in Sessions :
        Terminal(outcome[s]) /\ handler'[s] = handler[s] /\ job_id'[s] = job_id[s] =>
            /\ pc[s] = "idle" /\ pc'[s] = "idle"
            /\ poll_count'[s] = poll_count[s]
            /\ net'.status = net.status
            /\ outcome'[s] = outcome[s]
            /\ seen'[s] \ {MsgCancelling} = seen[s] \ {MsgCancelling}
            /\ final_out'[s] = final_out[s]
      ]_vars

C10_Witness ==
    \E s \in Sessions :
        /\ outcome[s] = "failed"
        /\ poll_count[s] = 3
        /\ pc[s] = "idle"
        /\ net.status = 3

\* The line is a data line that carries an event object.
IsEvent(l) == l.sse = "data" /\ l.json = "dict"

\* The lines of the new_line and new_lines_batch events of a feed,
\* flattened in feed order.
RECURSIVE FeedLineEvents(_)
FeedLineEvents(f) ==
    IF f = <<>> THEN <<>>
    ELSE (IF IsEvent(Head(f)) /\ Head(f).type \in {"new_line", "new_lines_batch"}
          THEN Head(f).lines ELSE <<>>) \o FeedLineEvents(Tail(f))

IsPrefix(a, b) == Len(a) <= Len(b) /\ a = SubSeq(b, 1, Len(a))

Malformed(l) ==
    /\ l.sse = "data"
    /\ \/ l.json # "dict"
       \/ ~l.has
       \/ \E i \in DOMAIN l.lines : ~({"start", "end"} \subseteq DOMAIN l.lines[i])

\* In this step session s reads one more line of the feed.
ReadsLine(s) == pc[s] = "stream" /\ Len(feed'[s]) = Len(feed[s]) + 1

\* C12: a malformed event on the feed is dropped and the stream goes on:
\* the relay keeps reading, what it holds is kept, and Home is not given
\* up for the Queue.
C12_MalformedEventIsDropped ==
    [][\A s \in Sessions :
        ReadsLine(s) /\ Malformed(feed'[s][Len(feed'[s])]) =>
            /\ pc'[s] = "stream"
            /\ final_result'[s] = final_result[s]
            /\ stats' = stats
            /\ net' = net
      ]_vars

\* The last final_sequence event of a feed, Null when it has none.
RECURSIVE LastFinal(_)
LastFinal(f) ==
    IF f = <<>> THEN Null
    ELSE LET l == f[Len(f)]
         IN  IF IsEvent(l) /\ l.type = "final_sequence" THEN l
             ELSE LastFinal(SubSeq(f, 1, Len(f) - 1))

C14_CompletesOnFinal ==
    [][\A s \in Sessions :
        (/\ ReadsLine(s)
         /\ IsEvent(feed'[s][Len(feed'[s])])
         /\ feed'[s][Len(feed'[s])].type = "final_sequence") =>
            /\ pc'[s] = "idle"
            /\ provider'[s] = "home"
            /\ result'[s] = feed'[s][Len(feed'[s])]
      ]_vars

\* In this step the feed of session s closes, and no final_sequence was
\* read from it.
ClosesWithoutFinal(s) ==
    /\ pc[s] = "stream"
    /\ pc'[s] # "stream"
    /\ feed'[s] = feed[s]
    /\ response'[s] = response[s]
    /\ LastFinal(feed[s]) = Null

RateIsRight(rate, requests, failures) ==
    /\ rate.den > 0
    /\ requests = 0 => rate.num = 0
    /\ requests > 0 => rate.num * requests = (requests - failures) * 100 * rate.den
    /\ 0 <= rate.num
    /\ rate.num <= 100 * rate.den

\* C16: in every reachable state get_stats reports for each provider the
\* rate (requests - failures) / requests as a percentage, 0 when the
\* provider has no requests, without a division by zero and within 0..100.
C16_SuccessRates ==
    /\ RateIsRight(get_stats.home_success_rate, stats.home_requests, stats.home_failures)
    /\ RateIsRight(get_stats.runpod_success_rate, stats.runpod_requests, stats.runpod_failures)

C16_Witness ==
    /\ stats.home_requests = 2
    /\ stats.home_failures = 1
    /\ get_stats.home_success_rate = [num |-> 100, den |-> 2]
    /\ get_stats.runpod_success_rate = [num |-> 100, den |-> 1]

\* In this step session s starts a router operation.
StartsRouterOp(s) ==
    /\ pc[s] = "idle"
    /\ pc'[s] \in {"health", "submit"}
    /\ handler'[s] \in RequestHandlers

\* C17: a step that starts a router operation adds exactly 1 to
\* total_requests, with Home configured before any request to Home or to
\* the Queue is counted; no other step changes total_requests, the end of
\* a call that raises included.
C17_TotalCountsOperations ==
    [][IF \E s \in Sessions : StartsRouterOp(s)
       THEN /\ stats'.total_requests = stats.total_requests + 1
            /\ home_gpu_url # None =>
                  /\ stats'.home_requests = stats.home_requests
                  /\ stats'.runpod_requests = stats.runpod_requests
       ELSE stats'.total_requests = stats.total_requests
      ]_vars

C17_Witness ==
    \E s \in Sessions :
        /\ stats.total_requests = 2
        /\ outcome[s] = "submit_error"
        /\ pc[s] = "idle"

\* The probe answers that the GPU is present and not busy.
ProbePositive(r) ==
    /\ IsProbe(r)
    /\ r.kind = "response" /\ r.status_code = 200 /\ r.body = "dict"
    /\ r.gpu_available = "true" /\ r.gpu_busy # "true"

\* C18: with Home configured every router operation starts with a health
\* probe, whatever home_gpu_available was left at, and goes on to Home
\* when that probe is positive, also after a Home failure cleared the flag.
C18_HealthCheckedPerCall ==
    [][\A s \in Sessions :
        /\ StartsRouterOp(s) /\ home_gpu_url # None =>
              /\ pc'[s] = "health"
              /\ net'.health = net.health + 1
        /\ (/\ pc[s] = "health"
            /\ pc'[s] # "health"
            /\ handler[s] \in RequestHandlers
            /\ ProbePositive(response'[s])) =>
              /\ pc'[s] = "home"
              /\ net'.home = net.home + 1
              /\ home_gpu_available'
      ]_vars

C18_Witness ==
    \E s \in Sessions :
        /\ stats.home_failures = 1
        /\ stats.total_requests = 2
        /\ net.health = 2
        /\ net.home = 2
        /\ pc[s] = "home"

\* The request got no answer that can be read: a timeout, a connection
\* failure or a body that is no JSON.
TransportError(r) == r.kind \in {"timeout", "error"} \/ r.body = "garbage"

\* C19: a status poll that fails in transport ends the polling loop at
\* once with the handler's local status message; the poll is not sent
\* again.
C19_PollErrorEndsLoop ==
    \A s \in Sessions :
        poll_json[s] # Null /\ TransportError(poll_json[s]) =>
            /\ pc[s] = "idle"
            /\ outcome[s] = "poll_error"
            /\ net.status = poll_count[s]
            /\ (IF handler[s] = "preprocess_image" THEN MsgImageLoaded ELSE MsgPollError) \in seen[s]
            /\ seen[s] \cap SuccessIndications = {}
            /\ final_out[s] = <<>>

C19_Witness ==
    \E s \in Sessions :
        /\ poll_json[s] # Null
        /\ poll_json[s].kind = "timeout"
        /\ poll_count[s] = 2
        /\ MsgPollError \in seen[s]
        /\ MsgGenerating \in seen[s]

\* C20: a Queue submission that fails in transport ends the request with
\* the handler's failure message: no request to Home, no second submission
\* and no polling follow it.
C20_SubmitErrorIsTerminal ==
    [][\A s \in Sessions :
        (/\ pc[s] = "submit"
         /\ pc'[s] # "submit"
         /\ TransportError(response'[s])) =>
            /\ pc'[s] = "idle"
            /\ outcome'[s] = "submit_error"
            /\ net' = net
            /\ stats' = stats
            /\ calls'[s] = calls[s]
            /\ job_id'[s] = None
            /\ provider'[s] = None
            /\ (IF handler[s] = "preprocess_image" THEN MsgImageLoaded ELSE MsgSubmitError) \in seen'[s]
      ]_vars

C20_Witness ==
    \E s \in Sessions :
        /\ outcome[s] = "submit_error"
        /\ response[s].kind = "timeout"
        /\ calls[s] = [health |-> 1, home |-> 1, run |-> 1]
        /\ MsgSubmitError \in seen[s]

\* The status responses that report a failed job: FAILED, or COMPLETED
\* with a nested status that is not "success".
FailureReports ==
    { r \in PollResponses :
        /\ r.kind = "response" /\ r.body = "dict"
        /\ r.status = "FAILED" \/ (r.status = "COMPLETED" /\ r.output # "success") }

\* C21: a polling timeout reaches the client as a condition of its own: a
\* request that timed out has emitted none of the sets of messages the
\* handler emits for a failed job.
C21_TimeoutIsDistinct ==
    \A s \in Sessions :
        outcome[s] = "timeout" =>
            \A r \in FailureReports : ~(PollMessages(handler[s], r) \subseteq seen[s])

\* C23: with the Queue key or endpoint id missing, a preprocess or
\* generation request emits its first message and one degraded or
\* configuration message and returns: the router is not called, no request
\* goes to Home or to the Queue for it, Home configured and healthy or not.
C23_MissingConfigShortCircuits ==
    \A s \in Sessions :
        handler[s] \in RequestHandlers /\ ~(RUNPOD_API_KEY /\ RUNPOD_ENDPOINT_ID) =>
            /\ pc[s] = "idle"
            /\ outcome[s] = "config_error"
            /\ calls[s] = ZeroCalls
            /\ stats = ZeroStats
            /\ net.home = 0 /\ net.run = 0
            /\ seen[s] \ {MsgCancelling} =
                  (IF handler[s] = "preprocess_image"
                   THEN {MsgPreprocessing, MsgImageLoaded}
                   ELSE {MsgStarting, MsgConfigError})

C23_Witness ==
    \E s \in Sessions :
        /\ handler[s] = "start_generation"
        /\ outcome[s] = "config_error"
        /\ RUNPOD_API_KEY /\ ~RUNPOD_ENDPOINT_ID
        /\ home_gpu_available
        /\ net.health = 2

\* C27: every probe that was sent sets last_health_check, whether it is
\* answered with 200, with another status, with a body that cannot be
\* read, or not at all.
C27_EveryProbeStamps ==
    [][\A s \in Sessions :
        pc[s] = "health" /\ pc'[s] # "health" => last_health_check' = net.health
      ]_vars

\* C29: no status request is sent once the time elapsed since the start
\* of polling is past the ceiling.
C29_NoPollPastCeiling ==
    [][\A s \in Sessions :
        pc[s] = "sleep" /\ pc'[s] = "poll" /\ net'.status = net.status + 1 =>
            elapsed'[s] <= Ceiling(handler[s])
      ]_vars

\* The status messages and events with which a handler ends.
ClosingMessages ==
    { MsgImageLoaded, MsgReadyHome, MsgReadyRunpod, MsgConfigError, MsgComplete,
      MsgServerError, MsgSubmitError, MsgTimedOut, MsgPollError,
      MsgGpuError("out of memory"), MsgGpuError("absent") }

\* The ways a handler ends by its own code.
HandledOutcomes ==
    { "config_error", "home_success", "no_id", "submit_error", "completed",
      "logical_failure", "failed", "timeout", "poll_error" }

\* C22: whatever fails on the way (the probe, the Home call, the feed, the
\* Queue submission, a status poll, the job itself, the ceiling), a
\* preprocess or generation request that is over has ended on a branch of
\* its handler, not with an exception leaving it, and a closing status has
\* been emitted to the client.
C22_NoErrorPathIsFatal ==
    \A s \in Sessions :
        handler[s] \in RequestHandlers /\ pc[s] = "idle" =>
            /\ outcome[s] \in HandledOutcomes
            /\ seen[s] \cap ClosingMessages # {}

C22_Witness ==
    \E s \in Sessions :
        /\ handler[s] = "start_generation"
        /\ pc[s] = "idle"
        /\ calls[s] = [health |-> 1, home |-> 1, run |-> 1]
        /\ Len(feed[s]) = 1
        /\ stats.home_failures = 1
        /\ outcome[s] = "timeout"

\* C24: a cancel request emits its status to the client and changes
\* nothing else: the handler of the session stays where it is, with its
\* job, its counters and what it has emitted.
C24_CancelOnlyAcknowledges ==
    [][\A s \in Sessions :
        MsgCancelling \in seen'[s] /\ MsgCancelling \notin seen[s] =>
            /\ seen'[s] = seen[s] \cup {MsgCancelling}
            /\ pc'[s] = pc[s]
            /\ UNCHANGED <<cfgVars, routerVars, net, callVars, response, streamVars, pollVars,
                           handler, result, provider, outcome, final_out, job_id>>
      ]_vars

\* The cancel came while the handler ran; the job was polled to its end
\* and its final_sequence emitted after it.
C24_Witness ==
    \E s \in Sessions :
        /\ MsgCancelling \in seen[s]
        /\ pc[s] = "idle"
        /\ outcome[s] = "completed"
        /\ EvFinalSequence \in seen[s]
        /\ Len(final_out[s]) = 1
        /\ poll_count[s] = 2

\* In this step session s runs a part of a router operation: its start, the
\* return of its health probe, or a step of its Home call.
RouterStep(s) ==
    /\ handler'[s] \in RequestHandlers
    /\ StartsRouterOp(s) \/ pc[s] \in {"health", "home", "stream"}

\* C28: no counter ever decreases, and only the steps of a router operation
\* change a counter: a wake-up call, a health check on its own, a cancel
\* request, the return of the Queue submission and every step of a polling
\* loop leave all five as they are.
C28_OnlyRouterWritesStats ==
    [][/\ \A k \in DOMAIN stats : stats'[k] >= stats[k]
       /\ (~ \E s \in Sessions : RouterStep(s)) => stats' = stats
      ]_vars

C28_Witness ==
    \E s \in Sessions :
        /\ handler[s] = "wake_gpu"
        /\ MsgWaking \in seen[s]
        /\ stats.total_requests = 1
        /\ stats.home_failures = 1
        /\ stats.runpod_requests = 1
        /\ net.run = 2

\* C25: with sessions interleaved at their network calls and sleeps, each
\* running one request, no increment is lost: total_requests is the number
\* of router operations started, home_requests the number of Home
\* attempts, runpod_requests the number of Queue submissions and
\* home_failures the number of Home attempts that ended in a fallback, at
\* every point and so once all have finished.
C25_NoLostIncrements ==
    /\ stats.total_requests =
          Cardinality({s \in Sessions : handler[s] \in RequestHandlers /\ outcome[s] # "config_error"})
    /\ stats.home_requests = Cardinality({s \in Sessions : calls[s].home = 1})
    /\ stats.runpod_requests = Cardinality({s \in Sessions : calls[s].run = 1})
    /\ stats.home_failures =
          Cardinality({s \in Sessions : calls[s].home = 1 /\ calls[s].run = 1})
    /\ stats.runpod_failures = 0
    /\ \A s \in Sessions : calls[s].home <= 1 /\ calls[s].run <= 1

C25_Witness ==
    /\ \A s \in Sessions : handler[s] # None /\ pc[s] = "idle"
    /\ stats.total_requests = NumSessions
    /\ stats.home_requests = NumSessions
    /\ stats.home_failures = 1
    /\ stats.runpod_requests = 1

C30_PollingTerminates ==
    \A s \in Main :
        (pc[s] = "sleep") ~> (pc[s] = "idle" /\ Terminal(outcome[s]))

C30_Witness ==
    \E s \in Sessions :
        /\ handler[s] = "start_generation"
        /\ pc[s] = "idle"
        /\ outcome[s] = "timeout"
        /\ poll_json[s].status = "IN_QUEUE"
        /\ seen[s] \cap {MsgGenerating, MsgComplete} = {}
        /\ poll_count[s] > 100

\* What the client and the handler of session s hold of its request.
SessionView(s) ==
    <<pc[s], result[s], provider[s], outcome[s], seen[s], lines_out[s], final_out[s], feed[s],
      final_result[s], calls[s], health[s], job_id[s]>>

\* C31: with two sessions that both had a positive health probe, a Home
\* call of one that fails (Home has turned busy since its probe) is
\* absorbed: that session counts one Home failure and submits to the
\* Queue, whose answer it returns with provider "runpod", and nothing of
\* the other session's request, its Home result included, is changed.
C31_WindowIsAbsorbed ==
    [][\A s, t \in Sessions :
        (s # t /\ health[s] /\ health[t] /\ calls[s].home = 1) =>
            /\ HomeCallFails(t) =>
                  /\ pc'[t] = "submit"
                  /\ stats'.home_failures = stats.home_failures + 1
                  /\ stats'.home_requests = stats.home_requests
                  /\ calls'[t].run = 1
                  /\ SessionView(s)' = SessionView(s)
            /\ (/\ pc[t] = "submit"
                /\ calls[t].home = 1
                /\ pc'[t] # "submit"
                /\ response'[t].kind = "response") =>
                  /\ provider'[t] = "runpod"
                  /\ pc'[t] = "sleep"
                  /\ stats' = stats
                  /\ SessionView(s)' = SessionView(s)
      ]_vars

C31_Witness ==
    \E s, t \in Sessions :
        /\ s # t
        /\ health[s] /\ health[t]
        /\ pc[s] = "stream" /\ final_result[s] # Null
        /\ calls[s].home = 1 /\ calls[s].run = 0
        /\ pc[t] = "sleep" /\ provider[t] = "runpod"
        /\ calls[t].home = 1 /\ calls[t].run = 1
        /\ stats.home_requests = 2
        /\ stats.home_failures = 1
        /\ stats.runpod_requests = 1

\* In this step a health probe of session s returns.
ProbeReturns(s) == pc[s] = "health" /\ pc'[s] # "health"

\* In this step the router operation of session s leaves Home for the
\* Queue: the Home call failed, or the feed held no final result or an
\* event that could not be handled.
HandsOverToQueue(s) == pc[s] \in {"home", "stream"} /\ pc'[s] = "submit"

\* C32: when the Home call of a router operation fails, home_gpu_available
\* is false as the operation hands over to the Queue; the flag changes in
\* no step but the return of a health probe, so it stays false until the
\* next one; with Home unconfigured it is false in every state.
C32_FailureClearsFlag ==
    /\ [](home_gpu_url = None => ~home_gpu_available)
    /\ [][/\ \A s \in Sessions : HandsOverToQueue(s) => ~home_gpu_available'
          /\ (home_gpu_available' # home_gpu_available) =>
                (\E s \in Sessions : ProbeReturns(s)) \/ (\E s \in Sessions : HandsOverToQueue(s))
          /\ (home_gpu_available' /\ ~home_gpu_available) => \E s \in Sessions : ProbeReturns(s)
         ]_vars

C32_Witness ==
    \E s \in Sessions :
        /\ health[s]
        /\ ~home_gpu_available
        /\ calls[s].home = 1
        /\ provider[s] = "runpod"
        /\ pc[s] = "sleep"
        /\ stats.total_requests = 2
        /\ stats.home_requests = 2
        /\ stats.home_failures = 1

\* Session s is inside a router operation: between its first statement
\* and its return or raise.
RouterCallInProgress(s) ==
    handler[s] \in RequestHandlers /\ pc[s] \in {"health", "home", "stream", "submit"}

\* C33: whenever no router operation is in progress, every operation
\* counted in total_requests was served by Home (a Home attempt that did
\* not fail) or handed to the Queue, and the counters are ordered:
\* total_requests = (home_requests - home_failures) + runpod_requests,
\* 0 <= home_failures <= home_requests <= total_requests and
\* runpod_requests <= total_requests, also after operations whose Queue
\* submission raised.
C33_CounterAccounting ==
    (\A s \in Sessions : ~RouterCallInProgress(s)) =>
        /\ stats.total_requests =
              (stats.home_requests - stats.home_failures) + stats.runpod_requests
        /\ 0 <= stats.home_failures
        /\ stats.home_failures <= stats.home_requests
        /\ stats.home_requests <= stats.total_requests
        /\ stats.runpod_requests <= stats.total_requests

C33_Witness ==
    \E s \in Sessions :
        /\ \A t \in Sessions : ~RouterCallInProgress(t)
        /\ outcome[s] = "submit_error"
        /\ calls[s].home = 1
        /\ stats.total_requests = 2
        /\ stats.home_requests = 2
        /\ stats.home_failures = 1
        /\ stats.runpod_requests = 1

\* C34: runpod_failures is written nowhere: it is 0 in every state, and
\* the Queue success rate that get_stats reports is 100% as soon as one
\* submission was counted, also after a submission that raised and after
\* a job that ended FAILED, without success or by the ceiling.
C34_QueueFailuresNeverCounted ==
    /\ stats.runpod_failures = 0
    /\ get_stats.runpod_failures = 0
    /\ stats.runpod_requests > 0 =>
          get_stats.runpod_success_rate.num = 100 * get_stats.runpod_success_rate.den

C34_Witness ==
    \E s \in Sessions :
        /\ pc[s] = "idle"
        /\ outcome[s] = "failed"
        /\ calls[s].home = 1
        /\ stats.runpod_requests = 1
        /\ stats.home_failures = 1
        /\ get_stats.runpod_success_rate = [num |-> 100, den |-> 1]

\* The line parses as JSON and handling it fails: the value is no object,
\* a line event lacks start or end, a progress event lacks current or
\* total.
HandlingFails(l) ==
    /\ l.sse = "data"
    /\ l.json # "garbage"
    /\ \/ l.json # "dict"
       \/ /\ l.type \in {"new_line", "new_lines_batch"}
          /\ \E i \in DOMAIN l.lines : ~({"start", "end"} \subseteq DOMAIN l.lines[i])
       \/ l.type = "progress" /\ ~l.has

\* C35: when handling a parseable feed event fails, the relay reads no
\* further line, one Home failure is counted and the request is submitted
\* to the Queue without another request to Home; the new_line events
\* already emitted stay emitted for the rest of the request, through the
\* polling loop to the Queue's result.
C35_SinkFailureFallsBack ==
    [][\A s \in Sessions :
        /\ (ReadsLine(s) /\ HandlingFails(feed'[s][Len(feed'[s])])) =>
              /\ pc'[s] = "submit"
              /\ stats'.home_failures = stats.home_failures + 1
              /\ stats'.home_requests = stats.home_requests
              /\ stats'.runpod_requests = stats.runpod_requests + 1
              /\ net'.run = net.run + 1
              /\ net'.home = net.home
              /\ calls'[s].home = 1 /\ calls'[s].run = 1
              /\ IsPrefix(lines_out[s], lines_out'[s])
        /\ (pc[s] \notin {"idle", "stream"}) =>
              /\ feed'[s] = feed[s]
              /\ lines_out'[s] = lines_out[s]
      ]_vars

C35_Witness ==
    \E s \in Sessions :
        /\ handler[s] = "start_generation"
        /\ Len(feed[s]) = 2
        /\ HandlingFails(feed[s][2])
        /\ lines_out[s] = <<LineA>>
        /\ outcome[s] = "completed"
        /\ Len(final_out[s]) = 1
        /\ final_out[s][1].provider = "runpod"
        /\ stats.home_failures = 1

\* A status answer that parses and reports none of the four statuses the
\* dispatch knows.
UnknownStatus(r) ==
    /\ r # Null
    /\ r.kind = "response" /\ r.body = "dict"
    /\ r.status \notin {"IN_QUEUE", "IN_PROGRESS", "COMPLETED", "FAILED"}

\* In this step a status request of session s returns.
PollReturns(s) == pc[s] = "poll" /\ pc'[s] # "poll"

\* C36: a status answer with no status or one the dispatch does not know
\* is not terminal: nothing is emitted for it, and the loop sleeps and
\* polls again unless the ceiling has passed, in which case the request
\* ends as timed out; a polling run that ended on such an answer ended by
\* the ceiling.
C36_UnknownStatusKeepsPolling ==
    [][\A s \in Sessions :
        (PollReturns(s) /\ UnknownStatus(poll_json'[s])) =>
            /\ net' = net
            /\ final_out'[s] = final_out[s]
            /\ \/ /\ pc'[s] = "sleep"
                  /\ outcome'[s] = "none"
                  /\ seen'[s] = seen[s]
                  /\ ~TimedOut(handler[s], elapsed'[s])
               \/ /\ pc'[s] = "idle"
                  /\ outcome'[s] = "timeout"
                  /\ seen'[s] = seen[s] \cup TimeoutMessages(handler[s])
                  /\ TimedOut(handler[s], elapsed'[s])
      ]_vars

C36_Witness ==
    \E s \in Sessions :
        /\ handler[s] = "start_generation"
        /\ pc[s] = "idle"
        /\ outcome[s] = "timeout"
        /\ poll_json[s].status = "CANCELLED"
        /\ seen[s] = {MsgStarting, MsgJobQueuedRunpod, EvProgress("5"), MsgTimedOut}
        /\ poll_count[s] > 100

\* The ends of a request on which no result was obtained.
Unsuccessful(o) ==
    o \in {"config_error", "submit_error", "no_id", "logical_failure", "failed", "timeout",
           "poll_error"}

\* C37: a request emits at most one final_sequence event: none while the
\* router operation or the polling loop runs (the sink forwards no
\* final_sequence of the feed), one when the request ends with the Home
\* result or with COMPLETED and success on the Queue, carrying that
\* provider, and none when it ends any other way; preprocessing emits
\* none.
C37_AtMostOneFinalSequence ==
    \A s \in Sessions :
        /\ Len(final_out[s]) <= 1
        /\ (EvFinalSequence \in seen[s]) <=> (final_out[s] # <<>>)
        /\ pc[s] # "idle" => final_out[s] = <<>>
        /\ Unsuccessful(outcome[s]) => final_out[s] = <<>>
        /\ handler[s] \notin {"start_generation", "start_generation_legacy"} => final_out[s] = <<>>
        /\ final_out[s] # <<>> =>
              \/ outcome[s] = "home_success" /\ final_out[s][1].provider = "home"
              \/ outcome[s] = "completed" /\ final_out[s][1].provider = "runpod"

C37_Witness ==
    \E s \in Sessions :
        /\ handler[s] = "start_generation"
        /\ Len(feed[s]) = 2
        /\ \A i \in 1..2 : feed[s][i].type = "final_sequence"
        /\ outcome[s] = "home_success"
        /\ Len(final_out[s]) = 1
        /\ pc[s] = "idle"

\* In this step session s sends a status request.
SendsStatusRequest(s) == pc[s] = "sleep" /\ pc'[s] = "poll"

\* In this step the Queue answers the submission of session s with a
\* body that holds no id.
AnswersWithoutId(s) ==
    /\ pc[s] = "submit"
    /\ pc'[s] # "submit"
    /\ response'[s].kind = "response" /\ response'[s].body = "dict"
    /\ "id" \notin DOMAIN response'[s].json

\* C38: a status request is sent only by a handler whose router operation
\* returned provider "runpod" and a result with an id, and all status
\* requests of the request are sent for that id; no other step sends one;
\* an answer of the Queue without an id ends the request with its status
\* message and without a status request.
C38_PollsOnlyAcceptedJob ==
    [][/\ \A s \in Sessions :
            /\ SendsStatusRequest(s) =>
                  /\ provider[s] = "runpod"
                  /\ "id" \in DOMAIN result[s]
                  /\ result[s].id \in JobIds
                  /\ polled'[s] = {result[s].id}
                  /\ net'.status = net.status + 1
            /\ AnswersWithoutId(s) =>
                  /\ pc'[s] = "idle"
                  /\ outcome'[s] = "no_id"
                  /\ seen'[s] = seen[s] \cup
                        (IF handler[s] = "preprocess_image" THEN {MsgImageLoaded} ELSE {MsgServerError})
                  /\ net'.status = net.status
            /\ outcome'[s] = "no_id" => poll_count'[s] = 0 /\ polled'[s] = {}
       /\ net'.status # net.status => \E s \in Sessions : SendsStatusRequest(s)
      ]_vars

C38_Witness ==
    \E s \in Sessions :
        /\ calls[s].home = 1
        /\ provider[s] = "runpod"
        /\ result[s] = [id |-> "job-a"]
        /\ polled[s] = {"job-a"}
        /\ poll_count[s] = 3
        /\ net.status = 3
        /\ outcome[s] = "completed"

====
